---- MODULE Spec2Model ----
(***************************************************************************)
(* Order creation, stock reservation, payment confirmation, cancellation   *)
(* and the expiry sweeper of the Mykonos store backend.                    *)
(*                                                                         *)
(* The database runs at PostgreSQL's default READ COMMITTED isolation and  *)
(* no handler takes a row lock before it reads (no SELECT ... FOR UPDATE). *)
(* A handler that decides on what it read and writes afterwards is         *)
(* therefore two steps: the reads (Begin) and the writes with the commit   *)
(* (Commit); another worker may commit in between.  A handler that raises  *)
(* inside "async with conn.transaction()" rolls its writes back.           *)
(***************************************************************************)
EXTENDS Integers, Sequences, FiniteSets, TLC

\* ---------------------------------------------------------------- bounds
MaxTime == 60
TickStep == 30
MaxCancels == 1
MaxTokenTime == 6
TokenStep == 1

\* ------------------------------------------------------ program constants
RESERVATION_MINUTES == 30
NoExpiry == 0

Workers == {1, 2}
Users == {1, 2}
Variants == {1, 2}
Branches == {1, 2}
Sources == {"webhook", "poll"}

\* nave: the token cache of nave_service (module globals) and what the last
\* call of get_nave_token did
VARIABLES db, now, pc, loc, response, nave

vars == <<db, now, pc, loc, response, nave>>

\* ------------------------------------------------------------ helpers
Min(a, b) == IF a < b THEN a ELSE b

RECURSIVE SumOver(_, _)
SumOver(f, S) ==
    IF S = {} THEN 0
    ELSE LET x == CHOOSE y \in S : TRUE IN f[x] + SumOver(f, S \ {x})

\* ids of the rows of web_variant_branch_assignment and of
\* warehouse_stock_variants: two tables with unrelated serial ids
AssignId(v, b) == (v - 1) * Cardinality(Branches) + b
WsvId(v, b) == (b - 1) * Cardinality(Variants) + v
WsvIds == {WsvId(v, b) : v \in Variants, b \in Branches}

InitialAssigned == [v \in Variants |->
                      IF v = 1 THEN [b \in Branches |-> IF b = 1 THEN 3 ELSE 2]
                               ELSE [b \in Branches |-> IF b = 1 THEN 1 ELSE 0]]

InitialWarehouse == [i \in WsvIds |->
                       LET vb == CHOOSE x \in Variants \X Branches : WsvId(x[1], x[2]) = i
                       IN InitialAssigned[vb[1]][vb[2]]]

InitialCart == [u \in Users |->
                  IF u = 1 THEN <<[variant_id |-> 1, quantity |-> 3]>>
                           ELSE <<[variant_id |-> 1, quantity |-> 2],
                                  [variant_id |-> 2, quantity |-> 1]>>]

\* the branch_id each user sends with create_order
BranchChoice == [u \in Users |-> IF u \in Branches THEN u ELSE 1]

\* ------------------------------------------------- queries on the database
\* SUM(cantidad_asignada) of a variant over its branch assignments
OnHand(d, v) == SumOver(d.assigned[v], Branches)

ReservationIds(d) == 1..Len(d.reservations)

\* SUM(quantity) of the active reservations of a variant with expires_at > t
StockReserved(d, v, t) ==
    LET q == [i \in ReservationIds(d) |->
                IF /\ d.reservations[i].variant_id = v
                   /\ d.reservations[i].status = "active"
                   /\ d.reservations[i].expires_at > t
                THEN d.reservations[i].quantity ELSE 0]
    IN SumOver(q, ReservationIds(d))

\* an availability that forgets the reservations, as a stock check on
\* cantidad_asignada alone would
LogicallyAvailable_IgnoringReservations(d, v, t) == OnHand(d, v)

\* available_stock = stock_available - stock_reserved
LogicallyAvailable(d, v, t) == OnHand(d, v) - StockReserved(d, v, t)

\* ids of the reservations of a sale that are 'active', in id order
RECURSIVE ActiveFrom(_, _, _)
ActiveFrom(d, o, i) ==
    IF i > Len(d.reservations) THEN <<>>
    ELSE (IF d.reservations[i].sale_id = o /\ d.reservations[i].status = "active"
          THEN <<i>> ELSE <<>>) \o ActiveFrom(d, o, i + 1)

ActiveReservations(d, o) == ActiveFrom(d, o, 1)

\* Rows of web_variant_branch_assignment of a variant with cantidad_asignada > 0,
\* ORDER BY (branch_id = pref first), cantidad_asignada DESC; pref = 0 gives the
\* plain ORDER BY cantidad_asignada DESC.  Rows with equal keys come in any order.
AssignmentOrders(d, v, pref) ==
    LET row == d.assigned[v]
        bs == {b \in Branches : row[b] > 0}
        key(b) == IF b = pref THEN 0 ELSE 1
        before(a, b) == \/ key(a) < key(b)
                        \/ key(a) = key(b) /\ row[a] >= row[b]
        seqs == {s \in [1..Cardinality(bs) -> bs] :
                   /\ \A i, j \in 1..Cardinality(bs) : i # j => s[i] # s[j]
                   /\ \A i, j \in 1..Cardinality(bs) : i < j => before(s[i], s[j])}
    IN {[i \in 1..Cardinality(bs) |->
            [branch_id |-> s[i], cantidad_asignada |-> row[s[i]]]] : s \in seqs}

Assignments(d, v, pref) == CHOOSE s \in AssignmentOrders(d, v, pref) : TRUE

\* the deduction loop: takes min(cantidad_asignada, remaining) from each row read
RECURSIVE DeductLoop(_, _)
DeductLoop(plan, remaining) ==
    IF plan = <<>> \/ remaining <= 0 THEN <<>>
    ELSE LET take == Min(Head(plan).cantidad_asignada, remaining)
         IN <<[branch_id |-> Head(plan).branch_id, amount |-> take]>>
            \o DeductLoop(Tail(plan), remaining - take)


\* ------------------------------------------------------------ row updates
SaleIds(d) == 1..Len(d.sales)

SetSale(d, o, st, ship, ref) ==
    [d EXCEPT !.sales[o].status = st,
              !.sales[o].shipping_status = ship,
              !.sales[o].payment_reference = ref]

\* sales_tracking_history, kept as it is read: per sale, in insertion order
AddTracking(d, o, st) ==
    IF o \in DOMAIN d.tracking
    THEN [d EXCEPT !.tracking[o] = Append(@, st)]
    ELSE [d EXCEPT !.tracking = Append(@, <<st>>)]

\* a release without the status filter
ReleaseActive_AnyStatus(d, o, to) ==
    [d EXCEPT !.reservations =
        [i \in ReservationIds(d) |->
            IF d.reservations[i].sale_id = o
            THEN [d.reservations[i] EXCEPT !.status = to]
            ELSE d.reservations[i]]]

\* UPDATE stock_reservations SET status = to WHERE sale_id = o AND status = 'active'
ReleaseActive(d, o, to) ==
    [d EXCEPT !.reservations =
        [i \in ReservationIds(d) |->
            IF d.reservations[i].sale_id = o /\ d.reservations[i].status = "active"
            THEN [d.reservations[i] EXCEPT !.status = to]
            ELSE d.reservations[i]]]

\* UPDATE stock_reservations SET status = to WHERE sale_id = o
SetAllReservations(d, o, to) ==
    [d EXCEPT !.reservations =
        [i \in ReservationIds(d) |->
            IF d.reservations[i].sale_id = o
            THEN [d.reservations[i] EXCEPT !.status = to]
            ELSE d.reservations[i]]]

\* a handler that writes and raises outside any transaction keeps its writes
Rollback_Commits(before, after) == after

\* a transaction that raises commits nothing
Rollback(before, after) == before

\* ------------------------------------------------ create_order (purchases)
\* auto-cleanup of the caller's earlier pending orders
AutoCleanup(d, u) ==
    [d EXCEPT !.reservations =
        [i \in ReservationIds(d) |->
            IF /\ d.reservations[i].status = "active"
               /\ d.sales[d.reservations[i].sale_id].web_user_id = u
               /\ d.sales[d.reservations[i].sale_id].status = "Pendiente de pago"
            THEN [d.reservations[i] EXCEPT !.status = "cancelled"]
            ELSE d.reservations[i]]]

\* index of the first cart line whose available stock is below its quantity, 0 if none
FirstShort(d, items, t) ==
    LET short == {i \in 1..Len(items) :
                    LogicallyAvailable(d, items[i].variant_id, t) < items[i].quantity}
    IN IF short = {} THEN 0 ELSE CHOOSE i \in short : \A j \in short : i <= j

CreateOrderCheck(d, u, t) ==
    LET d1 == AutoCleanup(d, u)
    IN IF d1.cart[u] = <<>> THEN "empty_cart"
       ELSE IF FirstShort(d1, d1.cart[u], t) # 0 THEN "insufficient_stock"
       ELSE "ok"

\* an insert that reserves the first cart line only
CreateOrderInsert_FirstLineOnly(d, u, br, items, t) ==
    LET d1 == AutoCleanup(d, u)
        o == Len(d1.sales) + 1
        expires == t + RESERVATION_MINUTES
        d2 == [d1 EXCEPT
                 !.sales = Append(@, [web_user_id |-> u, status |-> "Pendiente",
                                      shipping_status |-> "pendiente",
                                      reservation_expires_at |-> expires,
                                      storage_id |-> br,
                                      payment_reference |-> "none"]),
                 !.details = @ \o [i \in 1..Len(items) |->
                                     [sale_id |-> o, variant_id |-> items[i].variant_id,
                                      quantity |-> items[i].quantity]],
                 !.reservations = Append(@,
                                     [sale_id |-> o, variant_id |-> items[1].variant_id,
                                      quantity |-> items[1].quantity,
                                      expires_at |-> expires, status |-> "active"])]
    IN AddTracking(d2, o, "pendiente")

CreateOrderInsert(d, u, br, items, t) ==
    LET d1 == AutoCleanup(d, u)
        o == Len(d1.sales) + 1
        expires == t + RESERVATION_MINUTES
        d2 == [d1 EXCEPT
                 !.sales = Append(@, [web_user_id |-> u, status |-> "Pendiente",
                                      shipping_status |-> "pendiente",
                                      reservation_expires_at |-> expires,
                                      storage_id |-> br,
                                      payment_reference |-> "none"]),
                 !.details = @ \o [i \in 1..Len(items) |->
                                     [sale_id |-> o, variant_id |-> items[i].variant_id,
                                      quantity |-> items[i].quantity]],
                 !.reservations = @ \o [i \in 1..Len(items) |->
                                     [sale_id |-> o, variant_id |-> items[i].variant_id,
                                      quantity |-> items[i].quantity,
                                      expires_at |-> expires, status |-> "active"]]]
    IN AddTracking(d2, o, "pendiente")

\* ------------------------------------- confirm_order_payment (order_service)
\* the checks without the early return for a completed order
ConfirmOutcome_NoCompletedReturn(d, o, t) ==
    IF o \notin SaleIds(d) THEN "not_found"
    ELSE IF d.sales[o].status # "Pendiente" THEN "not_pending"
    ELSE IF /\ d.sales[o].reservation_expires_at # NoExpiry
            /\ t > d.sales[o].reservation_expires_at THEN "expired"
    ELSE IF ActiveReservations(d, o) = <<>> THEN "no_reservations"
    ELSE "proceed"

ConfirmOutcome(d, o, t) ==
    IF o \notin SaleIds(d) THEN "not_found"
    ELSE IF d.sales[o].status = "Completada" THEN "already_processed"
    ELSE IF d.sales[o].status # "Pendiente" THEN "not_pending"
    ELSE IF /\ d.sales[o].reservation_expires_at # NoExpiry
            /\ t > d.sales[o].reservation_expires_at THEN "expired"
    ELSE IF ActiveReservations(d, o) = <<>> THEN "no_reservations"
    ELSE "proceed"

\* the writes of the expired branch
ExpireInConfirm(d, o) ==
    SetAllReservations([d EXCEPT !.sales[o].status = "Cancelada"], o, "expired")

RECURSIVE ApplyTaken(_, _, _)
\* order_service: each deduction hits the branch assignment and the warehouse row
\* of the same variant and branch
ApplyTaken(d, v, taken) ==
    IF taken = <<>> THEN d
    ELSE LET b == Head(taken).branch_id
             n == Head(taken).amount
         IN ApplyTaken([d EXCEPT !.assigned[v][b] = @ - n,
                                 !.warehouse[WsvId(v, b)] = @ - n], v, Tail(taken))

RECURSIVE ConfirmLoop(_, _, _, _, _)
\* resv: ids read at the start; plan: the assignments read for the first of them
ConfirmLoop(d, resv, plan, storage, first) ==
    IF resv = <<>> THEN d
    ELSE LET r == d.reservations[Head(resv)]
             p == IF first THEN plan ELSE Assignments(d, r.variant_id, storage)
             d1 == ApplyTaken(d, r.variant_id, DeductLoop(p, r.quantity))
             d2 == [d1 EXCEPT !.reservations[Head(resv)].status = "confirmed"]
         IN ConfirmLoop(d2, Tail(resv), <<>>, storage, FALSE)

\* a confirmation that forgets the cart
ConfirmWrites_KeepsCart(d, o, resv, plan, storage, user, ref) ==
    LET d1 == ConfirmLoop(d, resv, plan, storage, TRUE)
        d3 == SetSale(d1, o, "Completada", "preparando", ref)
    IN AddTracking(d3, o, "preparando")

ConfirmWrites(d, o, resv, plan, storage, user, ref) ==
    LET d1 == ConfirmLoop(d, resv, plan, storage, TRUE)
        d2 == [d1 EXCEPT !.cart[user] = <<>>]
        d3 == SetSale(d2, o, "Completada", "preparando", ref)
    IN AddTracking(d3, o, "preparando")

\* --------------------------------------------- confirm_payment (purchases)
\* checks that take an order without active reservations for a paid one
ConfirmPaymentOutcome_EmptyIsSuccess(d, o, t) ==
    IF o \notin SaleIds(d) THEN "not_found"
    ELSE IF d.sales[o].status # "Pendiente" THEN "not_pending"
    ELSE IF /\ d.sales[o].reservation_expires_at # NoExpiry
            /\ t > d.sales[o].reservation_expires_at THEN "expired"
    ELSE IF ActiveReservations(d, o) = <<>> THEN "success"
    ELSE "proceed"

ConfirmPaymentOutcome(d, o, t) ==
    IF o \notin SaleIds(d) THEN "not_found"
    ELSE IF d.sales[o].status # "Pendiente" THEN "not_pending"
    ELSE IF /\ d.sales[o].reservation_expires_at # NoExpiry
            /\ t > d.sales[o].reservation_expires_at THEN "expired"
    ELSE IF ActiveReservations(d, o) = <<>> THEN "no_reservations"
    ELSE "proceed"

RECURSIVE ApplyTakenRoute(_, _, _)
\* purchases: UPDATE warehouse_stock_variants ... WHERE id = assignment['id']
ApplyTakenRoute(d, v, taken) ==
    IF taken = <<>> THEN d
    ELSE LET i == AssignId(v, Head(taken).branch_id)
             n == Head(taken).amount
         IN ApplyTakenRoute(IF i \in WsvIds THEN [d EXCEPT !.warehouse[i] = @ - n] ELSE d,
                            v, Tail(taken))

RECURSIVE ConfirmPaymentLoop(_, _, _, _, _)
ConfirmPaymentLoop(d, resv, plan, storage, first) ==
    IF resv = <<>> THEN d
    ELSE LET r == d.reservations[Head(resv)]
             p == IF first THEN plan ELSE Assignments(d, r.variant_id, storage)
             d1 == ApplyTakenRoute(d, r.variant_id, DeductLoop(p, r.quantity))
             d2 == [d1 EXCEPT !.reservations[Head(resv)].status = "confirmed"]
         IN ConfirmPaymentLoop(d2, Tail(resv), <<>>, storage, FALSE)

ConfirmPaymentWrites(d, o, resv, plan, storage, user, ref) ==
    LET d1 == ConfirmPaymentLoop(d, resv, plan, storage, TRUE)
        d2 == [d1 EXCEPT !.cart[user] = <<>>]
        d3 == SetSale(d2, o, "Completada", "preparando", ref)
    IN AddTracking(d3, o, "preparando")

\* ------------------------------------------------ cancel_order (purchases)
\* a cancellation that updates the sale and forgets its reservations
CancelOrderWrites_KeepsReservations(d, o) ==
    AddTracking(SetSale(d, o, "Cancelada", "cancelado", d.sales[o].payment_reference),
                o, "cancelado")

CancelOrderWrites(d, o) ==
    LET d1 == SetSale(d, o, "Cancelada", "cancelado", d.sales[o].payment_reference)
    IN AddTracking(ReleaseActive(d1, o, "cancelled"), o, "cancelado")

\* --------------------------------------- cancel_expired_orders (order_tasks)
RECURSIVE ExpiredFrom(_, _, _)
ExpiredFrom(d, t, i) ==
    IF i > Len(d.sales) THEN <<>>
    ELSE (IF /\ d.sales[i].status = "Pendiente de pago"
             /\ d.sales[i].reservation_expires_at # NoExpiry
             /\ d.sales[i].reservation_expires_at < t
          THEN <<i>> ELSE <<>>) \o ExpiredFrom(d, t, i + 1)

ExpiredOrders(d, t) == ExpiredFrom(d, t, 1)

ExpireOrder(d, o) ==
    LET d1 == SetSale(d, o, "Cancelada", "cancelado", d.sales[o].payment_reference)
    IN AddTracking(ReleaseActive(d1, o, "expired"), o, "cancelado")

\* the loop over the orders found: each order in a transaction of its own; an
\* exception in one (failing) rolls that transaction back and the loop goes on
RECURSIVE ExpireBatch(_, _, _)
ExpireBatch(d, orders, failing) ==
    IF orders = <<>> THEN d
    ELSE ExpireBatch(IF Head(orders) \in failing
                     THEN Rollback(d, ExpireOrder(d, Head(orders)))
                     ELSE ExpireOrder(d, Head(orders)),
                     Tail(orders), failing)

ExpireAll(d, orders) == ExpireBatch(d, orders, {})

\* ------------------------------------------------------ checkout (orders)
CheckoutCheck(d, u) ==
    IF d.cart[u] = <<>> THEN "empty_cart"
    ELSE IF \E i \in 1..Len(d.cart[u]) :
              OnHand(d, d.cart[u][i].variant_id) < d.cart[u][i].quantity
         THEN "insufficient_stock"
    ELSE "ok"

RECURSIVE ApplyTakenWeb(_, _, _)
ApplyTakenWeb(d, v, taken) ==
    IF taken = <<>> THEN d
    ELSE ApplyTakenWeb([d EXCEPT !.assigned[v][Head(taken).branch_id] = @ - Head(taken).amount],
                       v, Tail(taken))

RECURSIVE CheckoutItems(_, _, _)
CheckoutItems(d, o, items) ==
    IF items = <<>> THEN d
    ELSE LET it == Head(items)
             d1 == [d EXCEPT !.details = Append(@, [sale_id |-> o, variant_id |-> it.variant_id,
                                                    quantity |-> it.quantity])]
             d2 == ApplyTakenWeb(d1, it.variant_id,
                                 DeductLoop(Assignments(d1, it.variant_id, 0), it.quantity))
         IN CheckoutItems(d2, o, Tail(items))

CheckoutWrites(d, u, items) ==
    LET o == Len(d.sales) + 1
        d1 == [d EXCEPT !.sales = Append(@, [web_user_id |-> u, status |-> "Pendiente",
                                             shipping_status |-> "pendiente",
                                             reservation_expires_at |-> NoExpiry,
                                             storage_id |-> 1,
                                             payment_reference |-> "none"])]
        d2 == CheckoutItems(d1, o, items)
        d3 == [d2 EXCEPT !.cart[u] = <<>>]
    IN AddTracking(d3, o, "pendiente")


\* ------------------------------------------- get_nave_token (nave_service)
TOKEN_BUFFER == 60
DEFAULT_EXPIRES_IN == 3600

\* time.time() at clock minute t, in seconds
Seconds(t) == t * 60

\* _cached_token = None, _token_expiry = 0; no call made yet
NoToken == [cached_token |-> "None", token_expiry |-> 0,
            returned |-> "None", requested |-> FALSE]

ExpiresIn == {60, 120, 180}

\* what the auth endpoint may do: fail, or answer with a body whose
\* access_token may be empty and whose expires_in may be missing
AuthReplies ==
    {[ok |-> FALSE, access_token |-> "", has_expires_in |-> FALSE, expires_in |-> 0]}
    \cup {[ok |-> TRUE, access_token |-> a, has_expires_in |-> TRUE, expires_in |-> e] :
            a \in {"", "tokA", "tokB"}, e \in ExpiresIn}
    \cup {[ok |-> TRUE, access_token |-> a, has_expires_in |-> FALSE, expires_in |-> 0] :
            a \in {"tokA", "tokB"}}

\* the replies drawn where the token is only a means to reach the gateway
GatewayAuthReplies ==
    {r \in AuthReplies : ~r.ok \/ (r.access_token = "tokA" /\ ~r.has_expires_in)}

\* a validity test without the 60 second margin
TokenValid_NoBuffer(n, t) ==
    /\ n.cached_token \notin {"None", ""}
    /\ t < n.token_expiry

\* if _cached_token and current_time < (_token_expiry - 60)
TokenValid(n, t) ==
    /\ n.cached_token \notin {"None", ""}
    /\ t < n.token_expiry - TOKEN_BUFFER

\* the cache and the result after one call at time t (seconds); returned = "error"
\* stands for the exception the function raises
GetNaveToken(n, t, reply) ==
    IF TokenValid(n, t)
    THEN [n EXCEPT !.returned = n.cached_token, !.requested = FALSE]
    ELSE IF ~reply.ok \/ reply.access_token = ""
    THEN [n EXCEPT !.returned = "error", !.requested = TRUE]
    ELSE [cached_token |-> reply.access_token,
          token_expiry |-> t + (IF reply.has_expires_in THEN reply.expires_in
                                ELSE DEFAULT_EXPIRES_IN),
          returned |-> reply.access_token, requested |-> TRUE]


\* ------------------------------------ process_webhook_payload (payment_webhooks)
\* strings that are parsed are sequences of characters
ORDER_PREFIX == <<"o", "r", "d", "e", "r", "-">>
DigitChars == <<"0", "1", "2", "3", "4", "5", "6", "7", "8", "9">>

IsDigit(c) == \E i \in 1..Len(DigitChars) : DigitChars[i] = c
DigitValue(c) == (CHOOSE i \in 1..Len(DigitChars) : DigitChars[i] = c) - 1

\* positions from which sub occurs in s, at or after from
Occurrences(s, sub, from) ==
    {i \in from..(Len(s) - Len(sub) + 1) : SubSeq(s, i, i + Len(sub) - 1) = sub}

First(S) == CHOOSE i \in S : \A j \in S : i <= j

\* s.split(sep)[1] for an s that contains sep
SplitSecond(s, sep) ==
    LET start == First(Occurrences(s, sep, 1)) + Len(sep)
        later == Occurrences(s, sep, start)
    IN SubSeq(s, start, IF later = {} THEN Len(s) ELSE First(later) - 1)

RECURSIVE DigitsValue(_)
DigitsValue(s) ==
    IF s = <<>> THEN 0
    ELSE 10 * DigitsValue(SubSeq(s, 1, Len(s) - 1)) + DigitValue(s[Len(s)])

\* int(s): an optional sign and at least one digit, ValueError otherwise
ParseInt(s) ==
    LET signed == s # <<>> /\ Head(s) \in {"-", "+"}
        body == IF signed THEN Tail(s) ELSE s
    IN IF body # <<>> /\ \A i \in 1..Len(body) : IsDigit(body[i])
       THEN [ok |-> TRUE,
             value |-> IF signed /\ Head(s) = "-" THEN 0 - DigitsValue(body)
                       ELSE DigitsValue(body)]
       ELSE [ok |-> FALSE, value |-> 0]

\* step 3 of the webhook: "raise" is the ValueError of int() under "order-",
\* which only the outer handler catches; "return" the logged early return
ParseOrderId(ext) ==
    IF Occurrences(ext, ORDER_PREFIX, 1) # {}
    THEN LET r == ParseInt(SplitSecond(ext, ORDER_PREFIX))
         IN IF r.ok THEN [kind |-> "id", value |-> r.value]
            ELSE [kind |-> "raise", value |-> 0]
    ELSE LET r == ParseInt(ext)
         IN IF r.ok THEN [kind |-> "id", value |-> r.value]
            ELSE [kind |-> "return", value |-> 0]

\* external_payment_id of the payloads: order-1, order-2, 1, order-x, order-, x
ExternalIds ==
    {ORDER_PREFIX \o <<"1">>, ORDER_PREFIX \o <<"2">>, <<"1">>,
     ORDER_PREFIX \o <<"x">>, ORDER_PREFIX, <<"x">>}

\* what check_payment_status gives: an exception or the name of the status
GatewayResults == {"error", "APPROVED", "approved", "SUCCESS_PROCESSED", "REJECTED",
                   "CANCELLED", "REFUNDED", "PENDING"}

Upper(name) == IF name = "approved" THEN "APPROVED" ELSE name

\* a processing that confirms whatever the status is
WebhookOutcome_AnyStatus(d, t, n, ext, gw) ==
    IF n.returned = "error" \/ gw = "error" THEN "gateway_error"
    ELSE IF ParseOrderId(ext).kind # "id" THEN "bad_reference"
    ELSE ConfirmOutcome(d, ParseOrderId(ext).value, t)

\* what the background task does with the payload; n is the token cache after
\* the call of get_nave_token made by check_payment_status
WebhookOutcome(d, t, n, ext, gw) ==
    IF n.returned = "error" \/ gw = "error" THEN "gateway_error"
    ELSE IF ParseOrderId(ext).kind # "id" THEN "bad_reference"
    ELSE IF Upper(gw) = "APPROVED" THEN ConfirmOutcome(d, ParseOrderId(ext).value, t)
    ELSE "ignored"


\* ------------------------------------------------ notification emails
\* the email to the business and the email to the customer: not sent yet,
\* sent, or the send raised
NoMail == [business |-> "none", customer |-> "none"]
AllSent == [business |-> "sent", customer |-> "sent"]
MailOutcomes == [business : {"sent", "failed"}, customer : {"sent", "failed"}]

\* cancel_order writes to the customer only, and only for a cancellation by a
\* user who has an email address
CancelMailOutcomes == [business : {"none"}, customer : {"none", "sent", "failed"}]

\* emails whose exception leaves the handler and aborts its transaction
NotifyInTransaction_Propagates(before, written, mail) ==
    IF "failed" \in {mail.business, mail.customer} THEN Rollback(before, written)
    ELSE written

\* the emails are sent inside the transaction, each in its own try/except
\* that logs the failure: the writes made so far stay as they are
NotifyInTransaction(before, written, mail) == written

\* get_payment_status (nave_payments): the status is looked at first, then the
\* order reference is parsed; an id that does not parse or is 0 is skipped
PollOutcome(d, t, n, ext, gw) ==
    IF n.returned = "error" \/ gw = "error" THEN "gateway_error"
    ELSE IF Upper(gw) # "SUCCESS_PROCESSED" THEN "ignored"
    ELSE IF ParseOrderId(ext).kind # "id" \/ ParseOrderId(ext).value = 0 THEN "bad_reference"
    ELSE ConfirmOutcome(d, ParseOrderId(ext).value, t)

\* the poll answers with the gateway's data, or with 500 when the gateway failed
PollResponse(out) ==
    [op |-> "status_poll", order |-> 0,
     outcome |-> IF out = "gateway_error" THEN "error_500" ELSE "status_data"]

\* the endpoint's answer {"status": "success", ...}, with the order the payload names
WebhookResponse(ext) ==
    [op |-> "webhook",
     order |-> IF ParseOrderId(ext).kind = "id" /\ ParseOrderId(ext).value > 0
               THEN ParseOrderId(ext).value ELSE 0,
     outcome |-> "success"]

\* the database after a processing that ended without confirming: every
\* exception is caught and logged, the transaction of confirm_order_payment is
\* rolled back
WebhookFailed(d, o, out) ==
    IF out = "expired" THEN Rollback(d, ExpireInConfirm(d, o)) ELSE d

\* ------------------------------------------------------------ the system
\* what a worker holds during a call; txn: it is inside "async with
\* conn.transaction()"; mail: what became of the notification emails it sent
IdleLoc == [user |-> 0, order |-> 0, start |-> 0, storage |-> 0,
            items |-> <<>>, resv |-> <<>>, plan |-> <<>>, ref |-> "none",
            txn |-> FALSE, mail |-> NoMail]

NoResponse == [op |-> "none", order |-> 0, outcome |-> "none"]

OrderIds == {1, 2}

\* requests that have passed their checks and will insert a sale
Inserting == {p \in Workers : pc[p] \in {"create_insert", "checkout_insert"}}

CancelCount(d, o) ==
    Cardinality({i \in 1..Len(d.tracking[o]) : d.tracking[o][i] = "cancelado"})

InitialDb == [sales |-> <<>>, details |-> <<>>, reservations |-> <<>>,
              tracking |-> <<>>, assigned |-> InitialAssigned,
              warehouse |-> InitialWarehouse, cart |-> InitialCart]

Init ==
    /\ db = InitialDb
    /\ now = 0
    /\ pc = [p \in Workers |-> "idle"]
    /\ loc = [p \in Workers |-> IdleLoc]
    /\ response = NoResponse
    /\ nave = NoToken

\* the pool hands a request to any free worker: take the first
Free(p) == pc[p] = "idle" /\ \A q \in Workers : q < p => pc[q] # "idle"

Finish(p, op, u, o, outcome) ==
    /\ pc' = [pc EXCEPT ![p] = "idle"]
    /\ loc' = [loc EXCEPT ![p] = IdleLoc]
    /\ response' = [op |-> op, order |-> o, outcome |-> outcome]

\* the clock; a request lasts far less than one tick (command_timeout)
Tick ==
    /\ \A p \in Workers : pc[p] = "idle"
    /\ db.sales # <<>>
    /\ now + TickStep <= MaxTime
    /\ now' = now + TickStep
    /\ UNCHANGED <<db, pc, loc, response, nave>>

CreateOrderBegin(p, u, br) ==
    /\ Free(p)
    /\ Len(db.sales) + Cardinality(Inserting) < Cardinality(OrderIds)
    /\ LET out == CreateOrderCheck(db, u, now)
       IN IF out = "ok"
          THEN /\ pc' = [pc EXCEPT ![p] = "create_insert"]
               /\ loc' = [loc EXCEPT ![p] = [IdleLoc EXCEPT !.user = u, !.start = now,
                                                           !.storage = br,
                                                           !.items = db.cart[u],
                                                           !.txn = TRUE]]
               /\ UNCHANGED <<db, response>>
          ELSE /\ db' = Rollback(db, AutoCleanup(db, u))
               /\ Finish(p, "create_order", u, 0, out)
    /\ UNCHANGED <<now, nave>>

CreateOrderCommit(p) ==
    /\ pc[p] = "create_insert"
    /\ db' = CreateOrderInsert(db, loc[p].user, loc[p].storage, loc[p].items, loc[p].start)
    /\ Finish(p, "create_order", loc[p].user, Len(db.sales) + 1, "created")
    /\ UNCHANGED <<now, nave>>

CheckoutBegin(p, u) ==
    /\ Free(p)
    /\ Len(db.sales) + Cardinality(Inserting) < Cardinality(OrderIds)
    /\ LET out == CheckoutCheck(db, u)
       IN IF out = "ok"
          THEN /\ pc' = [pc EXCEPT ![p] = "checkout_insert"]
               /\ loc' = [loc EXCEPT ![p] = [IdleLoc EXCEPT !.user = u, !.start = now,
                                                           !.items = db.cart[u]]]
               /\ UNCHANGED response
          ELSE Finish(p, "checkout", u, 0, out)
    /\ UNCHANGED <<db, now, nave>>

CheckoutCommit(p) ==
    /\ pc[p] = "checkout_insert"
    /\ db' = CheckoutWrites(db, loc[p].user, loc[p].items)
    /\ Finish(p, "checkout", loc[p].user, Len(db.sales) + 1, "created")
    /\ UNCHANGED <<now, nave>>

\* confirm_order_payment called by the webhook or the status poll
ConfirmBegin(p, o, src) ==
    /\ Free(p)
    /\ LET out == ConfirmOutcome(db, o, now)
       IN IF out = "proceed"
          THEN /\ \E plan \in AssignmentOrders(db,
                        db.reservations[Head(ActiveReservations(db, o))].variant_id,
                        db.sales[o].storage_id) :
                    loc' = [loc EXCEPT ![p] = [IdleLoc EXCEPT
                                !.user = db.sales[o].web_user_id, !.order = o,
                                !.start = now, !.storage = db.sales[o].storage_id,
                                !.resv = ActiveReservations(db, o),
                                !.plan = plan, !.ref = "nave",
                                !.txn = TRUE]]
               /\ pc' = [pc EXCEPT ![p] = "confirm_deduct"]
               /\ UNCHANGED <<db, response>>
          ELSE /\ db' = IF out = "expired" THEN Rollback(db, ExpireInConfirm(db, o)) ELSE db
               /\ Finish(p, "confirm_order_payment", 0, o, out)
    /\ UNCHANGED <<now, nave>>

\* the assignments of the first reservation are read either before another
\* worker's commit (the rows kept since Begin) or after it (the rows as they are now)
FirstPlans(p) ==
    {loc[p].plan} \cup AssignmentOrders(db, db.reservations[Head(loc[p].resv)].variant_id,
                                        loc[p].storage)

ConfirmCommit(p) ==
    /\ pc[p] = "confirm_deduct"
    /\ \E plan \in FirstPlans(p), mail \in MailOutcomes :
         db' = NotifyInTransaction(db,
                   ConfirmWrites(db, loc[p].order, loc[p].resv, plan,
                                 loc[p].storage, loc[p].user, loc[p].ref), mail)
    /\ Finish(p, "confirm_order_payment", 0, loc[p].order, "success")
    /\ UNCHANGED <<now, nave>>

\* the authenticated confirm-payment endpoint
ConfirmPaymentBegin(p, u, o) ==
    /\ Free(p)
    /\ LET out == ConfirmPaymentOutcome(db, o, now)
       IN IF out = "proceed"
          THEN /\ \E plan \in AssignmentOrders(db,
                        db.reservations[Head(ActiveReservations(db, o))].variant_id,
                        db.sales[o].storage_id) :
                    loc' = [loc EXCEPT ![p] = [IdleLoc EXCEPT
                                !.user = db.sales[o].web_user_id, !.order = o,
                                !.start = now, !.storage = db.sales[o].storage_id,
                                !.resv = ActiveReservations(db, o),
                                !.plan = plan, !.ref = "user",
                                !.txn = TRUE]]
               /\ pc' = [pc EXCEPT ![p] = "confirm_payment_deduct"]
               /\ UNCHANGED <<db, response>>
          ELSE /\ db' = IF out = "expired" THEN Rollback(db, ExpireInConfirm(db, o)) ELSE db
               /\ Finish(p, "confirm_payment", u, o, out)
    /\ UNCHANGED <<now, nave>>

ConfirmPaymentCommit(p) ==
    /\ pc[p] = "confirm_payment_deduct"
    /\ \E plan \in FirstPlans(p), mail \in MailOutcomes :
         db' = NotifyInTransaction(db,
                   ConfirmPaymentWrites(db, loc[p].order, loc[p].resv, plan,
                                        loc[p].storage, loc[p].user, loc[p].ref), mail)
    /\ Finish(p, "confirm_payment", loc[p].user, loc[p].order, "success")
    /\ UNCHANGED <<now, nave>>

CancelOrder(p, u, o) ==
    /\ Free(p)
    /\ IF o \in SaleIds(db)
       THEN /\ CancelCount(db, o) < MaxCancels
            /\ \E mail \in CancelMailOutcomes :
                  db' = NotifyInTransaction(db, CancelOrderWrites(db, o), mail)
            /\ Finish(p, "cancel_order", u, o, "cancelled")
       ELSE /\ UNCHANGED db
            /\ Finish(p, "cancel_order", u, o, "not_found")
    /\ UNCHANGED <<now, nave>>

\* one run of cancel_expired_orders; the loop sleeps between runs
SweepRun(failing) ==
    /\ db' = ExpireBatch(db, ExpiredOrders(db, now), failing)
    /\ response' = [op |-> "sweep", order |-> 0,
                    outcome |-> IF ExpiredOrders(db, now) = <<>> THEN "no_expired"
                                ELSE "completed"]
    /\ UNCHANGED <<now, pc, loc, nave>>

\* any of the orders found may fail while it is being expired
Sweep ==
    \E failing \in SUBSET {ExpiredOrders(db, now)[i] : i \in 1..Len(ExpiredOrders(db, now))} :
        SweepRun(failing)

\* handle_production_webhook / handle_sandbox_webhook: the acknowledgement is
\* returned and process_webhook_payload runs as a background task
Webhook(p, ext, gw, reply) ==
    /\ Free(p)
    /\ nave' = GetNaveToken(nave, Seconds(now), reply)
    /\ response' = WebhookResponse(ext)
    /\ LET out == WebhookOutcome(db, now, nave', ext, gw)
           o == ParseOrderId(ext).value
       IN IF out = "proceed"
          THEN /\ \E plan \in AssignmentOrders(db,
                        db.reservations[Head(ActiveReservations(db, o))].variant_id,
                        db.sales[o].storage_id) :
                    loc' = [loc EXCEPT ![p] = [IdleLoc EXCEPT
                                !.user = db.sales[o].web_user_id, !.order = o,
                                !.start = now, !.storage = db.sales[o].storage_id,
                                !.resv = ActiveReservations(db, o),
                                !.plan = plan, !.ref = "nave",
                                !.txn = TRUE]]
               /\ pc' = [pc EXCEPT ![p] = "confirm_deduct"]
               /\ UNCHANGED db
          ELSE /\ db' = WebhookFailed(db, o, out)
               /\ UNCHANGED <<pc, loc>>
    /\ UNCHANGED now


\* GET /status/{payment_request_id}: the reconciliation by polling
StatusPoll(p, ext, gw, reply) ==
    /\ Free(p)
    /\ nave' = GetNaveToken(nave, Seconds(now), reply)
    /\ LET out == PollOutcome(db, now, nave', ext, gw)
           o == ParseOrderId(ext).value
       IN IF out = "proceed"
          THEN /\ \E plan \in AssignmentOrders(db,
                        db.reservations[Head(ActiveReservations(db, o))].variant_id,
                        db.sales[o].storage_id) :
                    loc' = [loc EXCEPT ![p] = [IdleLoc EXCEPT
                                !.user = db.sales[o].web_user_id, !.order = o,
                                !.start = now, !.storage = db.sales[o].storage_id,
                                !.resv = ActiveReservations(db, o),
                                !.plan = plan, !.ref = "nave",
                                !.txn = TRUE]]
               /\ pc' = [pc EXCEPT ![p] = "confirm_deduct"]
               /\ UNCHANGED <<db, response>>
          ELSE /\ db' = WebhookFailed(db, o, out)
               /\ response' = PollResponse(out)
               /\ UNCHANGED <<pc, loc>>
    /\ UNCHANGED now


Next ==
    \/ Tick
    \/ Sweep
    \/ \E p \in Workers, u \in Users : CreateOrderBegin(p, u, BranchChoice[u])
    \/ \E p \in Workers : CreateOrderCommit(p)
    \/ \E p \in Workers, u \in Users : CheckoutBegin(p, u)
    \/ \E p \in Workers : CheckoutCommit(p)
    \/ \E p \in Workers, o \in OrderIds, src \in Sources : ConfirmBegin(p, o, src)
    \/ \E p \in Workers : ConfirmCommit(p)
    \/ \E p \in Workers, u \in Users, o \in OrderIds : ConfirmPaymentBegin(p, u, o)
    \/ \E p \in Workers : ConfirmPaymentCommit(p)
    \/ \E p \in Workers, u \in Users, o \in OrderIds : CancelOrder(p, u, o)

Spec == Init /\ [][Next]_vars

\* the webhook endpoints with the handlers an order goes through
WebhookNext ==
    \/ Tick
    \/ \E p \in Workers, u \in Users : CreateOrderBegin(p, u, BranchChoice[u])
    \/ \E p \in Workers : CreateOrderCommit(p)
    \/ \E p \in Workers, ext \in ExternalIds, gw \in GatewayResults, reply \in GatewayAuthReplies :
          Webhook(p, ext, gw, reply)
    \/ \E p \in Workers, ext \in ExternalIds, gw \in GatewayResults, reply \in GatewayAuthReplies :
          StatusPoll(p, ext, gw, reply)
    \/ \E p \in Workers : ConfirmCommit(p)

WebhookSpec == Init /\ [][WebhookNext]_vars

\* ---- the token cache on its own: calls of get_nave_token as the clock advances
GetToken(reply) ==
    /\ nave' = GetNaveToken(nave, Seconds(now), reply)
    /\ UNCHANGED <<db, now, pc, loc, response>>

TokenTick ==
    /\ now + TokenStep <= MaxTokenTime
    /\ now' = now + TokenStep
    /\ UNCHANGED <<db, pc, loc, response, nave>>

TokenNext ==
    \/ TokenTick
    \/ \E reply \in AuthReplies : GetToken(reply)

TokenSpec == Init /\ [][TokenNext]_vars

\* ---- a confirmation step by step: the writes, the emails, the commit and
\* ---- the return, with the creation of the orders it confirms
ConfirmDeduct(p) ==
    /\ pc[p] = "confirm_deduct"
    /\ \E plan \in FirstPlans(p) : loc' = [loc EXCEPT ![p].plan = plan]
    /\ pc' = [pc EXCEPT ![p] = "confirm_notify"]
    /\ UNCHANGED <<db, now, response, nave>>

\* send_new_order_notification_to_business and send_order_status_email
ConfirmNotify(p, mail) ==
    /\ pc[p] = "confirm_notify"
    /\ loc' = [loc EXCEPT ![p].mail = mail]
    /\ pc' = [pc EXCEPT ![p] = "confirm_commit"]
    /\ UNCHANGED <<db, now, response, nave>>

\* leaving "async with conn.transaction()"
ConfirmTxnCommit(p) ==
    /\ pc[p] = "confirm_commit"
    /\ db' = NotifyInTransaction(db,
                 ConfirmWrites(db, loc[p].order, loc[p].resv, loc[p].plan,
                               loc[p].storage, loc[p].user, loc[p].ref), loc[p].mail)
    /\ loc' = [loc EXCEPT ![p].txn = FALSE]
    /\ pc' = [pc EXCEPT ![p] = "confirm_return"]
    /\ UNCHANGED <<now, response, nave>>

ConfirmReturn(p) ==
    /\ pc[p] = "confirm_return"
    /\ Finish(p, "confirm_order_payment", 0, loc[p].order, "success")
    /\ UNCHANGED <<db, now, nave>>

NotifyNext ==
    \/ \E p \in Workers, u \in Users : CreateOrderBegin(p, u, BranchChoice[u])
    \/ \E p \in Workers : CreateOrderCommit(p)
    \/ \E p \in Workers, o \in OrderIds, src \in Sources : ConfirmBegin(p, o, src)
    \/ \E p \in Workers : ConfirmDeduct(p)
    \/ \E p \in Workers, mail \in MailOutcomes : ConfirmNotify(p, mail)
    \/ \E p \in Workers : ConfirmTxnCommit(p)
    \/ \E p \in Workers : ConfirmReturn(p)

NotifySpec == Init /\ [][NotifyNext]_vars


\* ================================================================ claims
ReservationsOf(d, o) == {i \in ReservationIds(d) : d.reservations[i].sale_id = o}

\* units of a variant taken out of the branch assignments so far
Debited(d, v) == OnHand(InitialDb, v) - OnHand(d, v)

\* C1: for every variant, the active unexpired reservations plus the units
\* already sold never exceed the variant's total physical stock.
C1_ReservedPlusSoldWithinStock ==
    \A v \in Variants :
        StockReserved(db, v, now) + Debited(db, v) <= OnHand(InitialDb, v)

\* units a variant should have lost: confirmed reservations, and the lines of
\* the sales made by the checkout route (which carry no reservation expiry)
ConfirmedQty(d, v) ==
    LET q == [i \in ReservationIds(d) |->
                IF d.reservations[i].variant_id = v /\ d.reservations[i].status = "confirmed"
                THEN d.reservations[i].quantity ELSE 0]
    IN SumOver(q, ReservationIds(d))

CheckoutQty(d, v) ==
    LET q == [i \in 1..Len(d.details) |->
                IF /\ d.details[i].variant_id = v
                   /\ d.sales[d.details[i].sale_id].reservation_expires_at = NoExpiry
                THEN d.details[i].quantity ELSE 0]
    IN SumOver(q, 1..Len(d.details))

\* C2: confirmations of one order serialize: the on-hand stock of a variant is
\* never reduced by more than the quantities of its confirmed reservations
\* (and checkout sales), i.e. no reservation is debited twice.
C2_StockDebitedAtMostOnce ==
    \A v \in Variants : Debited(db, v) <= ConfirmedQty(db, v) + CheckoutQty(db, v)

\* C3: with 5 units of variant 1 on hand, two create_order calls for 3 units
\* each that ran at the same instant never both hold an active reservation.
C3_OneOfTwoConcurrentOrdersFails ==
    ~ \E i, j \in ReservationIds(db) :
        /\ db.reservations[i].sale_id # db.reservations[j].sale_id
        /\ db.reservations[i].variant_id = 1 /\ db.reservations[j].variant_id = 1
        /\ db.reservations[i].quantity = 3 /\ db.reservations[j].quantity = 3
        /\ db.reservations[i].status = "active" /\ db.reservations[j].status = "active"
        /\ db.reservations[i].expires_at = db.reservations[j].expires_at
        /\ db.reservations[i].expires_at > now
        /\ OnHand(db, 1) = 5

Overdue(d, o, t) ==
    /\ d.sales[o].status = "Pendiente"
    /\ d.sales[o].reservation_expires_at # NoExpiry
    /\ d.sales[o].reservation_expires_at < t

\* C4: a run of the sweeper moves every order that is still pending past its
\* reservation_expires_at to the expired state and leaves it no active reservation.
C4_SweepExpiresOverdueOrders ==
    [][Sweep => \A o \in SaleIds(db) :
                  Overdue(db, o, now) =>
                    /\ db'.sales[o].status = "Cancelada"
                    /\ \A i \in ReservationsOf(db, o) : db'.reservations[i].status # "active"]_vars

\* C5: after a confirmation has failed with the reservation-expired error the
\* order is persisted as expired and its reservations are marked 'expired'.
C5_ExpiredConfirmationPersistsExpiry ==
    (response.outcome = "expired" /\ response.op \in {"confirm_order_payment", "confirm_payment"})
      => /\ db.sales[response.order].status = "Cancelada"
         /\ \A i \in ReservationsOf(db, response.order) : db.reservations[i].status = "expired"

\* C6: confirm_order_payment on an order that is already fulfilled returns the
\* success response and leaves the whole database (stock, reservations, order,
\* payment reference, cart, tracking) as it was.
C6_ConfirmFulfilledIsNoOp ==
    [][\A p \in Workers, o \in OrderIds, src \in Sources :
         (/\ ConfirmBegin(p, o, src)
          /\ o \in SaleIds(db)
          /\ db.sales[o].status = "Completada")
         => /\ db' = db
            /\ response' = [op |-> "confirm_order_payment", order |-> o,
                            outcome |-> "already_processed"]]_vars

C6_Witness ==
    /\ response.op = "confirm_order_payment"
    /\ response.outcome = "already_processed"
    /\ db.sales[response.order].status = "Completada"
    /\ db.sales[response.order].payment_reference = "nave"

\* a cart line asks for more than on-hand minus active unexpired reservations
ShortLine(d, u, t) ==
    \E i \in 1..Len(d.cart[u]) :
        OnHand(d, d.cart[u][i].variant_id) - StockReserved(d, d.cart[u][i].variant_id, t)
            < d.cart[u][i].quantity

\* C7: create_order with a cart line above the logically available stock fails
\* with the insufficient-stock error and leaves the database as before the call.
C7_InsufficientStockChangesNothing ==
    [][\A p \in Workers, u \in Users :
         (CreateOrderBegin(p, u, BranchChoice[u]) /\ ShortLine(db, u, now))
         => /\ db' = db
            /\ response' = [op |-> "create_order", order |-> 0,
                            outcome |-> "insufficient_stock"]
            /\ pc'[p] = "idle"]_vars

C7_Witness ==
    /\ response = [op |-> "create_order", order |-> 0, outcome |-> "insufficient_stock"]
    /\ \E u \in Users : ShortLine(db, u, now)
    /\ \E i \in ReservationIds(db) : db.reservations[i].status = "active"

\* C8: from any state in which create_order would accept the cart of a user,
\* creating the order and cancelling it restores the logical availability of
\* every variant and leaves the on-hand quantities unchanged.
C8_CreateThenCancelRestoresAvailability ==
    \A u \in Users :
        CreateOrderCheck(db, u, now) = "ok"
        => LET created == CreateOrderInsert(db, u, BranchChoice[u], db.cart[u], now)
               cancelled == CancelOrderWrites(created, Len(created.sales))
           IN /\ \E v \in Variants :
                    LogicallyAvailable(created, v, now) < LogicallyAvailable(db, v, now)
              /\ \A v \in Variants :
                    /\ LogicallyAvailable(cancelled, v, now) = LogicallyAvailable(db, v, now)
                    /\ OnHand(cancelled, v) = OnHand(db, v)

\* an order made by create_order and cancelled, with the stock as at the start
C8_Witness ==
    /\ Len(db.sales) = 1
    /\ db.sales[1].reservation_expires_at # NoExpiry
    /\ db.sales[1].status = "Cancelada"
    /\ db.tracking[1] = <<"pendiente", "cancelado">>
    /\ \A i \in ReservationsOf(db, 1) : db.reservations[i].status = "cancelled"
    /\ \A v \in Variants : LogicallyAvailable(db, v, now) = OnHand(InitialDb, v)

Terminal(d, o) == d.sales[o].status \in {"Completada", "Cancelada"}

\* C9: once an order is fulfilled, cancelled or expired, no step changes its
\* status or its reservations.
C9_TerminalOrdersStayTerminal ==
    [][\A o \in SaleIds(db) :
         Terminal(db, o) =>
           /\ db'.sales[o].status = db.sales[o].status
           /\ \A i \in ReservationsOf(db, o) :
                db'.reservations[i].status = db.reservations[i].status]_vars

\* C10: an order never ends up cancelled or expired while its reservations are
\* confirmed and its stock debited.
C10_NoCancelledOrderWithConfirmedStock ==
    \A o \in SaleIds(db) :
        db.sales[o].status = "Cancelada"
          => \A i \in ReservationsOf(db, o) : db.reservations[i].status # "confirmed"

\* success or the kind of failure a confirmation answers with
OutcomeClass(out) == IF out \in {"already_processed", "proceed"} THEN "success" ELSE out

\* the part of the database a confirmation is compared on
ConfirmEffect(d, o) ==
    [status |-> d.sales[o].status, reservations |-> d.reservations,
     cart |-> d.cart, assigned |-> d.assigned, warehouse |-> d.warehouse]

\* C11: from any state, confirm_payment (the authenticated endpoint) answers
\* with the same outcome class as confirm_order_payment (webhook, status poll)
\* and leaves the same order status, reservation statuses, cart and per-location
\* on-hand quantities, including success on an already fulfilled order.
C11_ConfirmPaymentSameAsConfirmOrderPayment ==
    \A o \in SaleIds(db) :
        /\ OutcomeClass(ConfirmPaymentOutcome(db, o, now))
             = OutcomeClass(ConfirmOutcome(db, o, now))
        /\ ConfirmOutcome(db, o, now) = "proceed"
           => \A plan \in AssignmentOrders(db,
                    db.reservations[Head(ActiveReservations(db, o))].variant_id,
                    db.sales[o].storage_id) :
                ConfirmEffect(ConfirmPaymentWrites(db, o, ActiveReservations(db, o), plan,
                                  db.sales[o].storage_id, db.sales[o].web_user_id, "ref"), o)
                  = ConfirmEffect(ConfirmWrites(db, o, ActiveReservations(db, o), plan,
                                  db.sales[o].storage_id, db.sales[o].web_user_id, "ref"), o)

\* some reservation to confirm asks for more than the on-hand total of its variant
ShortAtConfirm(d, resv) ==
    \E i \in 1..Len(resv) :
        OnHand(d, d.reservations[resv[i]].variant_id) < d.reservations[resv[i]].quantity

\* C12: a confirmation that finds the summed on-hand quantity of a reserved
\* variant below the reserved quantity fails with the insufficient-stock error
\* and changes nothing; it never succeeds after deducting less than reserved.
C12_ShortConfirmationFails ==
    [][\A p \in Workers :
         (ConfirmCommit(p) /\ ShortAtConfirm(db, loc[p].resv))
         => /\ db' = db
            /\ response'.outcome = "insufficient_stock"]_vars

C14_CreationLeavesOnHandAlone ==
    [][/\ Len(db'.sales) > Len(db.sales)
          => db'.assigned = db.assigned /\ db'.warehouse = db.warehouse
       /\ (db'.assigned # db.assigned \/ db'.warehouse # db.warehouse)
          => /\ response'.op \in {"confirm_order_payment", "confirm_payment"}
             /\ response'.outcome = "success"]_vars

\* C15: every per-location on-hand quantity (branch assignment and warehouse
\* stock) of every variant is >= 0 in every reachable state.
C15_OnHandNeverNegative ==
    /\ \A v \in Variants, b \in Branches : db.assigned[v][b] >= 0
    /\ \A i \in WsvIds : db.warehouse[i] >= 0

\* s is t or t with entries appended
IsPrefix(s, t) == Len(s) <= Len(t) /\ SubSeq(t, 1, Len(s)) = s

\* C16: every change of an order's status (creation, fulfilment, cancellation,
\* expiry by the sweeper, expiry found during a confirmation attempt) comes
\* with a new tracking entry for that order written by the same transaction,
\* and tracking entries already written are never modified or removed.
C16_StatusChangeAppendsTracking ==
    [][/\ \A o \in SaleIds(db) :
             /\ IsPrefix(db.tracking[o], db'.tracking[o])
             /\ db'.sales[o].status # db.sales[o].status
                => Len(db'.tracking[o]) = Len(db.tracking[o]) + 1
       /\ \A o \in SaleIds(db') \ SaleIds(db) : Len(db'.tracking[o]) = 1
       /\ \A o \in SaleIds(db) :
             ConfirmOutcome(db, o, now) = "expired"
             => Len(ExpireInConfirm(db, o).tracking[o]) = Len(db.tracking[o]) + 1]_vars

\* a token is cached and the time is more than 60 seconds before its expiry
WithinValidity(n, t) ==
    n.cached_token \notin {"None", ""} /\ t + TOKEN_BUFFER < n.token_expiry

\* C17: get_nave_token returns the cached token without an auth request when
\* a token is cached and the time is more than 60 seconds before its expiry (so
\* a second call in the window makes no request and returns the same token);
\* otherwise it makes a request and, on a token answered, caches it with
\* expiry = time of the call + expires_in (3600 when expires_in is missing).
C17_TokenCachedUntilSixtySecondsBeforeExpiry ==
    [][\A reply \in AuthReplies :
         GetToken(reply)
         => IF WithinValidity(nave, Seconds(now))
            THEN /\ ~nave'.requested
                 /\ nave'.returned = nave.cached_token
                 /\ nave'.cached_token = nave.cached_token
                 /\ nave'.token_expiry = nave.token_expiry
            ELSE /\ nave'.requested
                 /\ (reply.ok /\ reply.access_token # "")
                    => /\ nave'.returned = reply.access_token
                       /\ nave'.cached_token = reply.access_token
                       /\ nave'.token_expiry =
                            Seconds(now) + (IF reply.has_expires_in THEN reply.expires_in
                                            ELSE DEFAULT_EXPIRES_IN)]_vars

\* a call made after the clock moved on from the issue of a token with the
\* default lifetime was served from the cache
C17_Witness ==
    /\ now > 0
    /\ nave.cached_token = "tokB"
    /\ nave.token_expiry = Seconds(now - TokenStep) + DEFAULT_EXPIRES_IN
    /\ nave.returned = "tokB"
    /\ ~nave.requested

\* C18: a successful create_order inserts exactly one 'active' reservation per
\* cart line, with that line's variant and quantity, and each of them expires
\* at the order's reservation_expires_at, the creation time plus 30 minutes.
C18_OneActiveReservationPerCartLine ==
    [][\A p \in Workers :
         CreateOrderCommit(p)
         => LET o == Len(db.sales) + 1
                items == loc[p].items
                n == Len(db.reservations)
            IN /\ db'.sales[o].reservation_expires_at = now + RESERVATION_MINUTES
               /\ ReservationsOf(db', o) = (n + 1)..(n + Len(items))
               /\ \A i \in 1..Len(items) :
                     db'.reservations[n + i] =
                        [sale_id |-> o, variant_id |-> items[i].variant_id,
                         quantity |-> items[i].quantity, status |-> "active",
                         expires_at |-> db'.sales[o].reservation_expires_at]]_vars

\* create_order has just made an order from a cart of two lines
C18_Witness ==
    /\ response.op = "create_order" /\ response.outcome = "created"
    /\ Cardinality(ReservationsOf(db, response.order)) = 2
    /\ \A i \in ReservationsOf(db, response.order) :
          /\ db.reservations[i].status = "active"
          /\ db.reservations[i].expires_at = now + RESERVATION_MINUTES
    /\ now > 0

RECURSIVE SumTaken(_)
SumTaken(taken) ==
    IF taken = <<>> THEN 0 ELSE Head(taken).amount + SumTaken(Tail(taken))

\* C19: in a confirmation that goes through, for every reservation the amounts
\* taken from the locations add up to the reserved quantity; the order's
\* preferred location comes first, the others follow by descending on-hand
\* quantity, and a location is emptied before the next one is touched.
C19_DeductionCoversReservationPreferredFirst ==
    \A o \in SaleIds(db) :
        ConfirmOutcome(db, o, now) = "proceed"
        => \A k \in 1..Len(ActiveReservations(db, o)) :
             LET r == db.reservations[ActiveReservations(db, o)[k]]
                 pref == db.sales[o].storage_id
                 row == db.assigned[r.variant_id]
             IN \A plan \in AssignmentOrders(db, r.variant_id, pref) :
                  LET taken == DeductLoop(plan, r.quantity)
                  IN /\ SumTaken(taken) = r.quantity
                     /\ (pref \in Branches /\ row[pref] > 0) => taken[1].branch_id = pref
                     /\ \A i, j \in 1..Len(taken) :
                           (i < j /\ taken[i].branch_id # pref)
                           => row[taken[i].branch_id] >= row[taken[j].branch_id]
                     /\ \A i \in 1..(Len(taken) - 1) :
                           taken[i].amount = row[taken[i].branch_id]

ReservedByOthers(d, v, t, u) ==
    LET q == [i \in ReservationIds(d) |->
                IF /\ d.reservations[i].variant_id = v
                   /\ d.reservations[i].status = "active"
                   /\ d.reservations[i].expires_at > t
                   /\ d.sales[d.reservations[i].sale_id].web_user_id # u
                THEN d.reservations[i].quantity ELSE 0]
    IN SumOver(q, ReservationIds(d))

\* C21: create_order releases the active reservations of the caller's earlier
\* pending orders before it checks availability: a user whose cart fits in the
\* stock not held by other users is not refused for insufficient stock.
C21_OwnPendingOrderDoesNotBlock ==
    \A u \in Users :
        (/\ db.cart[u] # <<>>
         /\ \A i \in 1..Len(db.cart[u]) :
               OnHand(db, db.cart[u][i].variant_id)
                 - ReservedByOthers(db, db.cart[u][i].variant_id, now, u)
               >= db.cart[u][i].quantity)
        => CreateOrderCheck(db, u, now) # "insufficient_stock"

\* the reservations after the release made by cancel_order, by the sweeper and
\* by the expired branch of a confirmation
Releases(d, o) ==
    {CancelOrderWrites(d, o).reservations, ExpireOrder(d, o).reservations}
    \cup (IF ConfirmOutcome(d, o, now) = "expired" \/ ConfirmPaymentOutcome(d, o, now) = "expired"
          THEN {ExpireInConfirm(d, o).reservations} ELSE {})

C23_NoExternalCallInsideTransaction ==
    \A p \in Workers : pc[p] = "confirm_notify" => ~loc[p].txn

\* C26: when sending either notification email fails the confirmation still
\* commits: the database after the commit is the one reached when both emails
\* are sent, with the order fulfilled and its reservations confirmed.
C26_EmailFailureDoesNotUndoConfirmation ==
    [][\A p \in Workers :
         ConfirmTxnCommit(p)
         => /\ db' = NotifyInTransaction(db,
                         ConfirmWrites(db, loc[p].order, loc[p].resv, loc[p].plan,
                                       loc[p].storage, loc[p].user, loc[p].ref), AllSent)
            /\ db'.sales[loc[p].order].status = "Completada"
            /\ \A i \in ReservationsOf(db, loc[p].order) :
                  db'.reservations[i].status = "confirmed"]_vars

\* a confirmation whose two emails failed has committed and is about to return
C26_Witness ==
    \E p \in Workers :
        /\ pc[p] = "confirm_return"
        /\ loc[p].mail = [business |-> "failed", customer |-> "failed"]
        /\ db.sales[loc[p].order].status = "Completada"
        /\ \A i \in ReservationsOf(db, loc[p].order) : db.reservations[i].status = "confirmed"
        /\ \E v \in Variants : Debited(db, v) > 0

\* the outcomes of a processing that did not call confirm_order_payment
NotInvoked == {"gateway_error", "bad_reference", "ignored"}

\* C24: the webhook calls the confirmation handler only for the status
\* APPROVED and the status poll only for SUCCESS_PROCESSED; for every other
\* status (REJECTED, CANCELLED, REFUNDED, pending, unknown) the handler is not
\* called and order status, reservations and stock stay as they are.
C24_ConfirmationOnlyOnSuccessStatus ==
    \A ext \in ExternalIds, gw \in GatewayResults, reply \in GatewayAuthReplies :
        LET n == GetNaveToken(nave, Seconds(now), reply)
            wo == WebhookOutcome(db, now, n, ext, gw)
            po == PollOutcome(db, now, n, ext, gw)
            o == ParseOrderId(ext).value
        IN /\ gw \notin {"APPROVED", "approved"}
              => wo \in NotInvoked /\ WebhookFailed(db, o, wo) = db
           /\ gw # "SUCCESS_PROCESSED"
              => po \in NotInvoked /\ WebhookFailed(db, o, po) = db

\* a webhook that named a confirmable order has been processed and the order is
\* still pending and confirmable
C24_Witness ==
    /\ response.op = "webhook"
    /\ \A p \in Workers : pc[p] = "idle"
    /\ response.order \in SaleIds(db)
    /\ ConfirmOutcome(db, response.order, now) = "proceed"
    /\ nave.returned = "tokA"

\* a worker of create_order or of a confirmation takes the step
ConfirmationCommits(p) ==
    /\ pc[p] \in {"confirm_deduct", "confirm_payment_deduct"}
    /\ pc'[p] = "idle"

CheckoutCommits == \E p \in Workers : pc[p] = "checkout_insert" /\ pc'[p] = "idle"

CountsAgainstAvailability(d, i, t) ==
    d.reservations[i].status = "active" /\ d.reservations[i].expires_at > t

\* C27: a reservation stops counting against logical availability exactly
\* when its order stops being confirmable: at no instant, now = expires_at
\* included, are the units of a reservation free for the availability check
\* while a confirmation of the order that holds them would still go through.
C27_ReservedWhileConfirmable ==
    \A o \in SaleIds(db) :
        ConfirmOutcome(db, o, now) = "proceed" =>
            \A k \in 1..Len(ActiveReservations(db, o)) :
                CountsAgainstAvailability(db, ActiveReservations(db, o)[k], now)

\* C28: in every reachable state the order status and its reservations agree:
\* a fulfilled order has all its reservations 'confirmed', a cancelled or
\* expired order has no 'active' and no 'confirmed' reservation, and a
\* reservation is 'active' only while its order is pending.
C28_StatusAndReservationsAgree ==
    \A o \in SaleIds(db) :
        /\ db.sales[o].status = "Completada" =>
             \A i \in ReservationsOf(db, o) : db.reservations[i].status = "confirmed"
        /\ db.sales[o].status = "Cancelada" =>
             \A i \in ReservationsOf(db, o) :
                 db.reservations[i].status \notin {"active", "confirmed"}
        /\ \A i \in ReservationsOf(db, o) :
             db.reservations[i].status = "active" => db.sales[o].status = "Pendiente"

\* a pending order none of whose reservations is 'active'
PendingWithoutReservation(d, o) ==
    /\ o \in SaleIds(d)
    /\ d.sales[o].status = "Pendiente"
    /\ ActiveReservations(d, o) = <<>>

\* C29: confirming a pending order that has no active reservation (an order
\* of the /orders/checkout route has no reservation and no expiry time) fails
\* with an error and leaves order status, stock, reservations and cart as they
\* were; an order without expiry time is never fulfilled and never selected
\* by the sweeper.
C29_ConfirmWithoutReservationFails ==
    [][/\ \A o \in SaleIds(db') :
            PendingWithoutReservation(db', o)
            => /\ ConfirmOutcome(db', o, now') = "no_reservations"
               /\ ConfirmPaymentOutcome(db', o, now') = "no_reservations"
       /\ (response' # response /\ response'.outcome = "no_reservations")
            => /\ db' = db
               /\ PendingWithoutReservation(db, response'.order)
               /\ \A p \in Workers : pc'[p] = pc[p]
       /\ \A o \in SaleIds(db') :
            db'.sales[o].reservation_expires_at = NoExpiry
            => /\ db'.sales[o].status # "Completada"
               /\ \A k \in 1..Len(ExpiredOrders(db', now')) : ExpiredOrders(db', now')[k] # o]_vars

\* a confirmation of a pending order of the checkout route has been refused
C29_Witness ==
    /\ response.op \in {"confirm_order_payment", "confirm_payment"}
    /\ response.outcome = "no_reservations"
    /\ PendingWithoutReservation(db, response.order)
    /\ db.sales[response.order].reservation_expires_at = NoExpiry
    /\ ReservationsOf(db, response.order) = {}

\* the caller u is not the buyer of order o
NotBuyer(d, u, o) == o \in SaleIds(d) /\ d.sales[o].web_user_id # u

\* C30: cancel_order and the authenticated confirm-payment endpoint change an
\* order only when the caller is the order's buyer: a call by another
\* authenticated user leaves order status, reservations and stock as they
\* were and starts no deduction.
C30_OnlyBuyerChangesOrder ==
    [][/\ \A p \in Workers, u \in Users, o \in OrderIds :
            (CancelOrder(p, u, o) /\ NotBuyer(db, u, o)) => db' = db
       /\ \A p \in Workers, u \in Users, o \in OrderIds :
            (ConfirmPaymentBegin(p, u, o) /\ NotBuyer(db, u, o))
            => db' = db /\ pc'[p] = "idle"]_vars

====
